---- MODULE Spec2Model ----
(***************************************************************************)
(* OpenFermion-Cirq: the four-qubit DoubleExcitationGate                   *)
(* (openfermioncirq/gates/four_qubit_gates.py) and the TrotterStepAlgorithm*)
(* template (openfermioncirq/trotter/trotter_step_algorithm.py).           *)
(*                                                                         *)
(* Numbers.  A Python number is modelled exactly as                        *)
(*     (num / den) * pi^pi      with kind "int" or "float",                *)
(* so that rads / numpy.pi, degs / 180 and 2 * duration / numpy.pi are     *)
(* computed, not assumed.  Amplitudes live in the cyclotomic ring          *)
(* Z[zeta], zeta = exp(i*pi/8), zeta^8 = -1, which holds Z**0.125 and      *)
(* exp(i*pi*theta) for every theta that is a multiple of 1/8 exactly.      *)
(***************************************************************************)
EXTENDS Integers, Sequences, FiniteSets, TLC

VARIABLES gates, last, qubits, dgate, ops, pc, U, den,
          alg, tqubits, tcontrol, phase, nsteps, emitted, labels

vars == <<gates, last, qubits, dgate, ops, pc, U, den,
          alg, tqubits, tcontrol, phase, nsteps, emitted, labels>>

gateVars == <<gates, last>>
decompVars == <<qubits, dgate, ops, pc, U, den>>
trotterVars == <<alg, tqubits, tcontrol, phase, nsteps, emitted, labels>>

\* Python's None, shaped like a number so that "is not None" is a comparison
None == [num |-> 0, den |-> 0, pi |-> 0, kind |-> "NoneType"]

-----------------------------------------------------------------------------
(* Bounds of the model.                                                    *)

\* exponents theta range over k/8 for k in -MaxK..MaxK
MaxK == 17
\* number of names the caller holds gates under (DoubleExcitation is name 1)
MaxGates == 2
\* number of Trotter steps the driver performs at most
MaxSteps == 4

-----------------------------------------------------------------------------
(* Exact numbers.                                                          *)

Abs(n) == IF n < 0 THEN -n ELSE n

RECURSIVE Gcd(_, _)
Gcd(a, b) == IF b = 0 THEN a ELSE Gcd(b, a % b)

\* the number (n / d) * pi^p, in lowest terms with a positive denominator
MkNum(n, d, p, k) ==
    LET s == IF d < 0 THEN -1 ELSE 1
        g == Gcd(Abs(n), Abs(d))
    IN  [num |-> IF n = 0 THEN 0 ELSE s * (n \div g),
         den |-> IF n = 0 THEN 1 ELSE Abs(d) \div g,
         pi  |-> IF n = 0 THEN 0 ELSE p,
         kind |-> k]

PyInt(n) == MkNum(n, 1, 0, "int")
PyFloat(n, d) == MkNum(n, d, 0, "float")
\* the float (n / d) * numpy.pi
PiTimes(n, d) == MkNum(n, d, 1, "float")
NumpyPi == PiTimes(1, 1)

\* Python's == on numbers compares values, not types
NumEq(a, b) == a.num * b.den = b.num * a.den /\ a.pi = b.pi

\* Python 3 true division: the result is always a float
NumDiv(a, b) == MkNum(a.num * b.den, a.den * b.num, a.pi - b.pi, "float")

\* Python multiplication: int * int is an int, anything else a float
NumMul(a, b) ==
    MkNum(a.num * b.num, a.den * b.den, a.pi + b.pi,
          IF a.kind = "int" /\ b.kind = "int" THEN "int" ELSE "float")

NumNeg(a) == [a EXCEPT !.num = -a.num]

NumAdd(a, b) ==
    MkNum(a.num * b.den + b.num * a.den, a.den * b.den, a.pi,
          IF a.kind = "int" /\ b.kind = "int" THEN "int" ELSE "float")

\* theta as a count of eighths of a half turn (theta a multiple of 1/8)
Eighths(x) == (x.num * 8) \div x.den

-----------------------------------------------------------------------------
(* The ring Z[zeta], zeta = exp(i*pi/8): a0 + a1 zeta + ... + a7 zeta^7.   *)

RIdx == 0..7

RZero == [i \in RIdx |-> 0]
ROne == [i \in RIdx |-> IF i = 0 THEN 1 ELSE 0]

RAdd(a, b) == [i \in RIdx |-> a[i] + b[i]]
RSub(a, b) == [i \in RIdx |-> a[i] - b[i]]
RScale(a, n) == [i \in RIdx |-> n * a[i]]

\* a * zeta^k for any integer k (zeta^8 = -1, zeta^16 = 1)
RMulZeta(a, k) ==
    LET kk == k % 16
    IN  [i \in RIdx |->
            LET s == (i - kk) % 8
            IN  IF ((s + kk) \div 8) % 2 = 0 THEN a[s] ELSE -a[s]]

RMul(a, b) ==
    [i \in RIdx |->
        b[0] * RMulZeta(a, 0)[i] + b[1] * RMulZeta(a, 1)[i]
      + b[2] * RMulZeta(a, 2)[i] + b[3] * RMulZeta(a, 3)[i]
      + b[4] * RMulZeta(a, 4)[i] + b[5] * RMulZeta(a, 5)[i]
      + b[6] * RMulZeta(a, 6)[i] + b[7] * RMulZeta(a, 7)[i]]

\* complex conjugate: zeta^s |-> zeta^(-s)
RConj(a) ==
    [i \in RIdx |->
        RMulZeta(ROne, 0)[i] * a[0] + RMulZeta(ROne, -1)[i] * a[1]
      + RMulZeta(ROne, -2)[i] * a[2] + RMulZeta(ROne, -3)[i] * a[3]
      + RMulZeta(ROne, -4)[i] * a[4] + RMulZeta(ROne, -5)[i] * a[5]
      + RMulZeta(ROne, -6)[i] * a[6] + RMulZeta(ROne, -7)[i] * a[7]]

\* exp(i*pi*x) for x a multiple of 1/8
ExpIPi(x) == RMulZeta(ROne, Eighths(x))

RECURSIVE Pow2(_)
Pow2(n) == IF n = 0 THEN 1 ELSE 2 * Pow2(n - 1)

-----------------------------------------------------------------------------
(* cirq helpers the gate is built on.                                      *)

\* cirq.value.chosen_angle_to_half_turns(half_turns, rads, degs), default 1.0
ChosenAngleToHalfTurns(half_turns, rads, degs) ==
    IF rads # None THEN NumDiv(rads, NumpyPi)
    ELSE IF degs # None THEN NumDiv(degs, PyInt(180))
    ELSE IF half_turns # None THEN half_turns
    ELSE PyFloat(1, 1)

-----------------------------------------------------------------------------
(* class DoubleExcitationGate                                              *)

\* the count taken with "if e" instead of "if e is not None": a supplied 0
\* is not counted
NumSupplied_truthy(half_turns, rads, degs, duration) ==
    (IF half_turns # None /\ half_turns.num # 0 THEN 1 ELSE 0)
  + (IF rads # None /\ rads.num # 0 THEN 1 ELSE 0)
  + (IF degs # None /\ degs.num # 0 THEN 1 ELSE 0)
  + (IF duration # None /\ duration.num # 0 THEN 1 ELSE 0)

\* len([1 for e in [half_turns, rads, degs, duration] if e is not None])
NumSupplied(half_turns, rads, degs, duration) ==
    (IF half_turns # None THEN 1 ELSE 0) + (IF rads # None THEN 1 ELSE 0)
  + (IF degs # None THEN 1 ELSE 0) + (IF duration # None THEN 1 ELSE 0)

\* __init__ converting a duration as duration / pi, the factor 2 forgotten
DoubleExcitationGate_duration(half_turns, rads, degs, duration) ==
    IF NumSupplied(half_turns, rads, degs, duration) > 1
    THEN [raised |-> TRUE, exponent |-> None, gate |-> [exponent |-> None]]
    ELSE LET exponent ==
                IF duration # None
                THEN NumDiv(duration, NumpyPi)
                ELSE ChosenAngleToHalfTurns(half_turns, rads, degs)
         IN  [raised |-> FALSE, exponent |-> exponent,
              gate |-> [exponent |-> exponent]]

\* __init__: raised tells whether ValueError was raised, exponent is the
\* local variable exponent (None while unassigned), gate the constructed
\* object (its _exponent is what super().__init__ stored)
DoubleExcitationGate(half_turns, rads, degs, duration) ==
    IF NumSupplied(half_turns, rads, degs, duration) > 1
    THEN [raised |-> TRUE, exponent |-> None, gate |-> [exponent |-> None]]
    ELSE LET exponent ==
                IF duration # None
                THEN NumDiv(NumMul(PyInt(2), duration), NumpyPi)
                ELSE ChosenAngleToHalfTurns(half_turns, rads, degs)
         IN  [raised |-> FALSE, exponent |-> exponent,
              gate |-> [exponent |-> exponent]]

NoGate == [exponent |-> None]

\* the property half_turns
half_turns(self) == self.exponent

Dim == 16
Idx == 0..(Dim - 1)

\* numpy matrices with entries 0, 0.5, -0.5, 1 are stored as twice their
\* value, so that every entry is an integer
minus_one_component ==
    [ij \in Idx \X Idx |->
        IF ij \in {<<3, 3>>, <<12, 12>>} THEN 1
        ELSE IF ij \in {<<3, 12>>, <<12, 3>>} THEN -1 ELSE 0]

\* plus_one_component with the sign of minus_one_component left in
plus_one_component_sign ==
    [ij \in Idx \X Idx |->
        IF ij \in {<<3, 3>>, <<12, 12>>} THEN 1
        ELSE IF ij \in {<<3, 12>>, <<12, 3>>} THEN -1 ELSE 0]

plus_one_component ==
    [ij \in Idx \X Idx |->
        IF ij \in {<<3, 3>>, <<12, 12>>} THEN 1
        ELSE IF ij \in {<<3, 12>>, <<12, 3>>} THEN 1 ELSE 0]

\* numpy.diag([1, 1, 1, 0, 1, 1, 1, 1, 1, 1, 1, 1, 0, 1, 1, 1])
zero_component ==
    LET d == <<1, 1, 1, 0, 1, 1, 1, 1, 1, 1, 1, 1, 0, 1, 1, 1>>
    IN  [ij \in Idx \X Idx |-> IF ij[1] = ij[2] THEN 2 * d[ij[1] + 1] ELSE 0]

_eigen_components(self) ==
    << [lambda |-> 0, proj |-> zero_component],
       [lambda |-> -1, proj |-> minus_one_component],
       [lambda |-> 1, proj |-> plus_one_component] >>

_canonical_exponent_period_three(self) == 3

_canonical_exponent_period(self) == 2

\* x reduced into [0, 2)
NumMod2(x) == MkNum(x.num % (2 * x.den), x.den, x.pi, x.kind)

\* _with_exponent storing the exponent reduced modulo the period
_with_exponent_reduced(self, exponent) ==
    DoubleExcitationGate(NumMod2(exponent), None, None, None).gate

_with_exponent(self, exponent) ==
    DoubleExcitationGate(exponent, None, None, None).gate

\* the unicode wire symbols U+21C5 and U+21F5 are written by their names
text_diagram_info(self, use_unicode_characters) ==
    [wire_symbols |->
        IF use_unicode_characters
        THEN <<"up-down", "up-down", "down-up", "down-up">>
        ELSE <<"/\\ \\/", "/\\ \\/", "\\/ /\\", "\\/ /\\">>,
     exponent |-> half_turns(self)]

\* repr() of a Python int
Digit(n) == CASE n = 0 -> "0" [] n = 1 -> "1" [] n = 2 -> "2" [] n = 3 -> "3"
              [] n = 4 -> "4" [] n = 5 -> "5" [] n = 6 -> "6" [] n = 7 -> "7"
              [] n = 8 -> "8" [] n = 9 -> "9"

RECURSIVE ReprNat(_)
ReprNat(n) == IF n < 10 THEN Digit(n) ELSE ReprNat(n \div 10) \o Digit(n % 10)

RECURSIVE StripZeros(_)
StripZeros(n) == IF n # 0 /\ n % 10 = 0 THEN StripZeros(n \div 10) ELSE n

\* repr() of a number: an int prints its digits, a float that is a multiple
\* of 1/8 prints its exact decimal expansion with at least one decimal
ReprNum(x) ==
    LET sign == IF x.num < 0 THEN "-" ELSE ""
        a == Abs(x.num)
        whole == a \div x.den
        thousandths == ((a % x.den) * 1000) \div x.den
        lead == IF thousandths = 0 THEN ""
                ELSE IF thousandths < 100 THEN "0" ELSE ""
    IN  IF x.kind = "int" THEN sign \o ReprNat(a)
        ELSE sign \o ReprNat(whole) \o "." \o lead
                  \o ReprNat(StripZeros(thousandths))

\* __repr__ comparing the exponent reduced modulo the period with 1
Repr_reduced(self) ==
    IF NumEq(NumMod2(half_turns(self)), PyInt(1)) THEN "DoubleExcitation"
    ELSE "DoubleExcitation**" \o ReprNum(half_turns(self))

\* __repr__
Repr(self) ==
    IF NumEq(half_turns(self), PyInt(1)) THEN "DoubleExcitation"
    ELSE "DoubleExcitation**" \o ReprNum(half_turns(self))

\* the module-level instance DoubleExcitation = DoubleExcitationGate()
DoubleExcitation == DoubleExcitationGate(None, None, None, None).gate

\* EigenGate's operator sum_i exp(i*pi*lambda_i*theta) * P_i, stored as twice
\* its value (the projectors above are stored doubled)
EigenOperator(self) ==
    LET c == _eigen_components(self)
        theta == half_turns(self)
        term(n, ij) == RScale(ExpIPi(NumMul(PyInt(c[n].lambda), theta)),
                              c[n].proj[ij])
    IN  [ij \in Idx \X Idx |->
            RAdd(term(1, ij), RAdd(term(2, ij), term(3, ij)))]

-----------------------------------------------------------------------------
(* Operations and their action on amplitudes.                              *)

\* an operation: a cirq gate raised to exp (in half turns) on qubits a, b
CNOT(c, t) == [gate |-> "CNOT", a |-> c, b |-> t, exp |-> PyFloat(1, 1)]
XPow(q, e) == [gate |-> "X", a |-> q, b |-> q, exp |-> e]
ZPow(q, e) == [gate |-> "Z", a |-> q, b |-> q, exp |-> e]
\* cirq.X(q) is the X gate at one half turn
X(q) == XPow(q, PyFloat(1, 1))

\* gate ** power multiplies the gate's exponent by power
PowExp(power) == NumMul(PyFloat(1, 1), power)

\* position of qubit qb in the register qs (big-endian: qs[1] is the most
\* significant bit of a basis-state index)
Pos(qs, qb) == CHOOSE n \in 1..Len(qs) : qs[n] = qb
Weight(qs, qb) == Pow2(Len(qs) - Pos(qs, qb))
Bit(qs, qb, i) == (i \div Weight(qs, qb)) % 2
Flip(qs, qb, i) ==
    IF Bit(qs, qb, i) = 0 THEN i + Weight(qs, qb) ELSE i - Weight(qs, qb)

\* op applied to the amplitude vector v.  X ** t is the matrix
\* 1/2 [[1 + w, 1 - w], [1 - w, 1 + w]] with w = exp(i*pi*t); its result is
\* stored doubled, and HalfCount counts the factors 1/2 still owed
ApplyOp(qs, op, v) ==
    CASE op.gate = "CNOT" ->
            [i \in Idx |->
                IF Bit(qs, op.a, i) = 1 THEN v[Flip(qs, op.b, i)] ELSE v[i]]
      [] op.gate = "Z" ->
            [i \in Idx |->
                IF Bit(qs, op.a, i) = 1
                THEN RMulZeta(v[i], Eighths(op.exp)) ELSE v[i]]
      [] op.gate = "X" ->
            [i \in Idx |->
                LET w == Eighths(op.exp)
                    x == v[i]
                    y == v[Flip(qs, op.a, i)]
                IN  RAdd(RAdd(x, RMulZeta(x, w)), RSub(y, RMulZeta(y, w)))]

HalfCount(op) == IF op.gate = "X" THEN 1 ELSE 0

BasisVector(b) == [i \in Idx |-> IF i = b THEN ROne ELSE RZero]

RECURSIVE ApplyOps(_, _, _)
ApplyOps(qs, seq, v) ==
    IF seq = <<>> THEN v ELSE ApplyOps(qs, Tail(seq), ApplyOp(qs, Head(seq), v))

-----------------------------------------------------------------------------
(* DoubleExcitationGate.default_decompose                                  *)

rq_phase_block(q, r) ==
    << ZPow(q, PowExp(PyFloat(1, 8))),
       CNOT(r, q),
       ZPow(q, PowExp(PyFloat(-1, 8))) >>

srq_parity_transform(q, r, s) == << CNOT(s, r), CNOT(r, q), CNOT(s, r) >>

\* [[rq_phase_block, srq_parity_transform, rq_phase_block]], flattened
phase_parity_block(q, r, s) ==
    rq_phase_block(q, r) \o srq_parity_transform(q, r, s)
                         \o rq_phase_block(q, r)

\* default_decompose with the third phase_parity_block left out
default_decompose_three_blocks(self, qs) ==
    LET p == qs[1]
        q == qs[2]
        r == qs[3]
        s == qs[4]
    IN  << CNOT(r, s), CNOT(q, p), CNOT(q, r),
           XPow(q, PowExp(NumNeg(half_turns(self)))) >>
        \o phase_parity_block(q, r, s)
        \o << CNOT(p, q), X(q) >>
        \o phase_parity_block(q, r, s)
        \o << XPow(q, PowExp(half_turns(self))) >>
        \o << CNOT(p, q), X(q) >>
        \o phase_parity_block(q, r, s)
        \o << CNOT(q, p), CNOT(q, r), CNOT(r, s) >>

\* default_decompose whose first X power has the sign of its exponent lost
default_decompose_sign(self, qs) ==
    LET p == qs[1]
        q == qs[2]
        r == qs[3]
        s == qs[4]
    IN  << CNOT(r, s), CNOT(q, p), CNOT(q, r),
           XPow(q, PowExp(half_turns(self))) >>
        \o phase_parity_block(q, r, s)
        \o << CNOT(p, q), X(q) >>
        \o phase_parity_block(q, r, s)
        \o << XPow(q, PowExp(half_turns(self))) >>
        \o phase_parity_block(q, r, s)
        \o << CNOT(p, q), X(q) >>
        \o phase_parity_block(q, r, s)
        \o << CNOT(q, p), CNOT(q, r), CNOT(r, s) >>

\* default_decompose whose closing network ends on CNOT(s, r)
default_decompose_closing(self, qs) ==
    LET p == qs[1]
        q == qs[2]
        r == qs[3]
        s == qs[4]
    IN  << CNOT(r, s), CNOT(q, p), CNOT(q, r),
           XPow(q, PowExp(NumNeg(half_turns(self)))) >>
        \o phase_parity_block(q, r, s)
        \o << CNOT(p, q), X(q) >>
        \o phase_parity_block(q, r, s)
        \o << XPow(q, PowExp(half_turns(self))) >>
        \o phase_parity_block(q, r, s)
        \o << CNOT(p, q), X(q) >>
        \o phase_parity_block(q, r, s)
        \o << CNOT(q, p), CNOT(q, r), CNOT(s, r) >>

\* the yielded operations, flattened in emission order
default_decompose(self, qs) ==
    LET p == qs[1]
        q == qs[2]
        r == qs[3]
        s == qs[4]
    IN  << CNOT(r, s), CNOT(q, p), CNOT(q, r),
           XPow(q, PowExp(NumNeg(half_turns(self)))) >>
        \o phase_parity_block(q, r, s)
        \o << CNOT(p, q), X(q) >>
        \o phase_parity_block(q, r, s)
        \o << XPow(q, PowExp(half_turns(self))) >>
        \o phase_parity_block(q, r, s)
        \o << CNOT(p, q), X(q) >>
        \o phase_parity_block(q, r, s)
        \o << CNOT(q, p), CNOT(q, r), CNOT(r, s) >>

-----------------------------------------------------------------------------
(* Decomposing a gate and composing the emitted operations into a unitary. *)

Register == <<"p", "q", "r", "s">>

\* theta = k/8, as an int when it is whole and as a float otherwise
Thetas ==
    {PyFloat(k, 8) : k \in (-MaxK)..MaxK} \cup {PyInt(k) : k \in -2..2}

Identity == [b \in Idx |-> BasisVector(b)]

InitGateIdle ==
    /\ gates = [n \in 1..MaxGates |-> IF n = 1 THEN DoubleExcitation ELSE NoGate]
    /\ last = [op |-> "import"]

InitDecompIdle ==
    /\ qubits = Register
    /\ dgate = DoubleExcitation
    /\ ops = <<>>
    /\ pc = 0
    /\ U = Identity
    /\ den = 0

InitTrotterIdle ==
    /\ alg = "default"
    /\ tqubits = <<>>
    /\ tcontrol = "None"
    /\ phase = "idle"
    /\ nsteps = 0
    /\ emitted = <<>>
    /\ labels = <<>>

\* a gate DoubleExcitationGate(half_turns=theta), not yet decomposed
InitDecomp ==
    /\ InitGateIdle
    /\ InitTrotterIdle
    /\ qubits = Register
    /\ \E theta \in Thetas :
          dgate = DoubleExcitationGate(theta, None, None, None).gate
    /\ ops = <<>>
    /\ pc = 0
    /\ U = Identity
    /\ den = 0

\* dgate.default_decompose(qubits): the emitted operations
Decompose ==
    /\ pc = 0
    /\ ops' = default_decompose(dgate, qubits)
    /\ pc' = 1
    /\ UNCHANGED <<qubits, dgate, U, den, gateVars, trotterVars>>

\* the next emitted operation is multiplied onto the unitary built so far;
\* U[b] is the image of basis state b
ComposeNext ==
    /\ pc >= 1
    /\ pc <= Len(ops)
    /\ U' = [b \in Idx |-> ApplyOp(qubits, ops[pc], U[b])]
    /\ den' = den + HalfCount(ops[pc])
    /\ pc' = pc + 1
    /\ UNCHANGED <<qubits, dgate, ops, gateVars, trotterVars>>

NextDecomp == Decompose \/ ComposeNext

SpecDecomp == InitDecomp /\ [][NextDecomp]_vars

Composed == pc > Len(ops) /\ pc > 1

\* C1: the composition of the emitted operations equals the eigen-operator
\* sum_i exp(i*pi*lambda_i*theta) P_i up to one global phase of modulus 1.
\* With c the (0,0) entry of the composition (the eigen-operator has 1
\* there), U / 2^den = c * E and |c| = 1.
C1_DecompositionEqualsEigenOperator ==
    Composed =>
        LET c == U[0][0]
            E == EigenOperator(dgate)
        IN  /\ RMul(c, RConj(c)) = RScale(ROne, Pow2(2 * den))
            /\ \A i \in Idx, j \in Idx :
                  RScale(U[j][i], 2) = RMul(c, E[<<i, j>>])

C1_Witness ==
    /\ Composed
    /\ Len(ops) = 48
    /\ NumEq(half_turns(dgate), PyFloat(3, 8))
    /\ U[3][12] # RZero

\* positions in ops where a phase_parity_block starts
BlockLen == Len(phase_parity_block(qubits[2], qubits[3], qubits[4]))

BlockStarts ==
    {n \in 1..Len(ops) :
        /\ n + BlockLen - 1 <= Len(ops)
        /\ SubSeq(ops, n, n + BlockLen - 1)
              = phase_parity_block(qubits[2], qubits[3], qubits[4])}

InBlock(n) == \E b \in BlockStarts : b <= n /\ n < b + BlockLen

\* the operations between the opening and the closing CNOT network that
\* belong to no phase_parity_block, in emission order
RECURSIVE Between(_)
Between(n) ==
    IF n > Len(ops) - 3 THEN <<>>
    ELSE IF InBlock(n) THEN Between(n + 1)
    ELSE <<ops[n]>> \o Between(n + 1)

\* C9 as stated: phase_parity_block is applied three times
C9_ThreeBlocks ==
    Composed => Cardinality(BlockStarts) = 3

\* C9 (amended): phase_parity_block is applied four times; each application
\* directly follows an X on q, and the operations between the blocks are, in
\* order, X(q)**-theta, [CNOT(p,q), X(q)], X(q)**theta, [CNOT(p,q), X(q)]:
\* two NOT-to-the-theta powers and two full-NOT patterns.
C9_FourBlocksInterleaved ==
    Composed =>
        LET p == qubits[1]
            q == qubits[2]
            theta == half_turns(dgate)
        IN  /\ Cardinality(BlockStarts) = 4
            /\ \A b \in BlockStarts :
                  b > 1 /\ ops[b - 1].gate = "X" /\ ops[b - 1].a = q
            /\ Between(4) = << XPow(q, PowExp(NumNeg(theta))),
                               CNOT(p, q), X(q),
                               XPow(q, PowExp(theta)),
                               CNOT(p, q), X(q) >>

C9_Witness ==
    /\ Composed
    /\ BlockStarts = {5, 16, 26, 37}
    /\ NumEq(half_turns(dgate), PyFloat(5, 8))

Reverse(seq) == [n \in 1..Len(seq) |-> seq[Len(seq) + 1 - n]]

FirstThree == SubSeq(ops, 1, 3)
LastThree == SubSeq(ops, Len(ops) - 2, Len(ops))

\* the last three operations undo the first three on every basis state
ClosingUndoesOpening ==
    \A b \in Idx :
        ApplyOps(qubits, LastThree, ApplyOps(qubits, FirstThree, BasisVector(b)))
            = BasisVector(b)

\* C10 as stated: the last three operations are the first three in reverse
\* order, and their composition is the inverse of that of the first three
C10_ReverseOrder ==
    Composed =>
        /\ LastThree = Reverse(FirstThree)
        /\ ClosingUndoesOpening

\* C10 (amended): the last three operations are the same three CNOTs as the
\* first three; the last one emitted is the first one emitted, while the two
\* that share the control q keep their relative order (they are not
\* reversed); the composition of the last three is the inverse of the
\* composition of the first three.
C10_SameCnotsUndoOpening ==
    Composed =>
        /\ \A n \in 1..3 : FirstThree[n].gate = "CNOT"
        /\ LastThree[3] = FirstThree[1]
        /\ LastThree[1] = FirstThree[2]
        /\ LastThree[2] = FirstThree[3]
        /\ FirstThree[2].a = FirstThree[3].a
        /\ ClosingUndoesOpening

C10_Witness ==
    /\ Composed
    /\ LastThree = << CNOT("q", "p"), CNOT("q", "r"), CNOT("r", "s") >>
    /\ FirstThree = << CNOT("r", "s"), CNOT("q", "p"), CNOT("q", "r") >>
    /\ U[5] # BasisVector(5)

-----------------------------------------------------------------------------
(* Constructing, re-parameterizing and printing gates.                     *)

\* keyword arguments a caller passes to the constructor
HalfTurnsArgs == {PyInt(0), PyInt(1), PyFloat(3, 8)}
RadsArgs == {PyFloat(0, 1), NumpyPi, PiTimes(1, 8)}
DegsArgs == {PyInt(0), PyInt(180), PyFloat(45, 2)}
DurationArgs == {PyFloat(0, 1), PiTimes(1, 2), PiTimes(1, 16)}
\* exponents a caller passes to _with_exponent
ExponentArgs ==
    {PyInt(0), PyInt(1), PyInt(2), PyInt(3), PyInt(-1), PyFloat(5, 2),
     PyFloat(-3, 8)}

Opt(S) == S \cup {None}

Names == 1..MaxGates

InitGate ==
    /\ InitGateIdle
    /\ InitDecompIdle
    /\ InitTrotterIdle

\* name 1 = DoubleExcitationGate(half_turns=h, rads=r, degs=d, duration=t);
\* a raise leaves the name bound to what it was
Construct(h, r, d, t) ==
    LET new == DoubleExcitationGate(h, r, d, t)
    IN  /\ gates' = IF new.raised THEN gates ELSE [gates EXCEPT ![1] = new.gate]
        /\ last' = [op |-> "init", args |-> <<h, r, d, t>>,
                    raised |-> new.raised, exponent |-> new.exponent]
        /\ UNCHANGED <<decompVars, trotterVars>>

NextCtor ==
    \E h \in Opt(HalfTurnsArgs), r \in Opt(RadsArgs), d \in Opt(DegsArgs),
       t \in Opt(DurationArgs) : Construct(h, r, d, t)

SpecCtor == InitGate /\ [][NextCtor]_vars

\* name j = (name i)._with_exponent(x), j another name than i
WithExponent(i, x, j) ==
    /\ gates[i] # NoGate
    /\ j # i
    /\ gates' = [gates EXCEPT ![j] = _with_exponent(gates[i], x)]
    /\ last' = [op |-> "with_exponent", src |-> i, arg |-> x, res |-> j]
    /\ UNCHANGED <<decompVars, trotterVars>>

\* repr(name i)
ReprCall(i) ==
    /\ gates[i] # NoGate
    /\ last' = [op |-> "repr", src |-> i, res |-> Repr(gates[i])]
    /\ UNCHANGED <<gates, decompVars, trotterVars>>

\* (name i).text_diagram_info(args)
TextDiagramInfoCall(i, unicode) ==
    /\ gates[i] # NoGate
    /\ last' = [op |-> "text_diagram_info", src |-> i,
                res |-> text_diagram_info(gates[i], unicode)]
    /\ UNCHANGED <<gates, decompVars, trotterVars>>

NextGate ==
    \/ \E i \in Names, x \in ExponentArgs, j \in Names : WithExponent(i, x, j)
    \/ \E i \in Names : ReprCall(i)
    \/ \E i \in Names, unicode \in BOOLEAN : TextDiagramInfoCall(i, unicode)

SpecGate == InitGate /\ [][NextGate]_vars

TypeGate ==
    /\ \A n \in Names : gates[n] = NoGate \/ gates[n].exponent.den > 0
    /\ gates[1] # NoGate

ArgCount(args) == Cardinality({n \in 1..4 : args[n] # None})

\* C2: the constructor raises ValueError exactly when two or more of
\* half_turns, rads, degs, duration are supplied (a supplied 0 counts), it
\* raises before the exponent is computed or stored (the local exponent is
\* unassigned and no gate is bound), with nothing supplied it succeeds with
\* exponent 1, and with exactly one supplied it never raises.
C2_RedundantSpecificationRaises ==
    /\ [](last.op = "init" =>
            /\ (ArgCount(last.args) >= 2) <=> last.raised
            /\ last.raised => last.exponent = None
            /\ ~last.raised => gates[1].exponent = last.exponent
            /\ ArgCount(last.args) = 0 =>
                  ~last.raised /\ NumEq(half_turns(gates[1]), PyInt(1)))
    /\ [][last'.op = "init" /\ last'.raised => gates' = gates]_vars

C2_Witness ==
    /\ last.op = "init"
    /\ last.raised
    /\ last.args = <<PyInt(0), PyFloat(0, 1), None, None>>
    /\ gates[1] = DoubleExcitation

\* C3: with exactly one argument supplied the stored exponent is half_turns
\* itself, rads/pi, degs/180 or 2*duration/pi; half_turns=1, rads=pi,
\* degs=180 and duration=pi/2 all give exponent 1.
C3_UnitConversions ==
    last.op = "init" /\ ArgCount(last.args) = 1 =>
        LET e == half_turns(gates[1])
            h == last.args[1]
            r == last.args[2]
            d == last.args[3]
            t == last.args[4]
        IN  /\ ~last.raised
            /\ h # None => e = h
            /\ r # None => NumEq(NumMul(e, NumpyPi), r)
            /\ d # None => NumEq(NumMul(e, PyInt(180)), d)
            /\ t # None => NumEq(NumMul(e, NumpyPi), NumMul(PyInt(2), t))
            /\ last.args \in { <<PyInt(1), None, None, None>>,
                               <<None, NumpyPi, None, None>>,
                               <<None, None, PyInt(180), None>>,
                               <<None, None, None, PiTimes(1, 2)>> }
                  => NumEq(e, PyInt(1))

C3_Witness ==
    /\ last.op = "init"
    /\ last.args = <<None, None, None, PiTimes(1, 2)>>
    /\ gates[1].exponent = PyFloat(1, 1)

\* C6: g._with_exponent(x) is a new gate whose half_turns is x exactly (not
\* reduced modulo the period), with the eigen-components, canonical period
\* and display symbols of g, and g is left as it was; after any sequence of
\* such calls.
C6_WithExponent ==
    /\ [](last.op = "with_exponent" =>
            LET g == gates[last.src]
                n == gates[last.res]
            IN  /\ half_turns(n) = last.arg
                /\ _eigen_components(n) = _eigen_components(g)
                /\ _canonical_exponent_period(n) = _canonical_exponent_period(g)
                /\ \A u \in BOOLEAN :
                      text_diagram_info(n, u).wire_symbols
                         = text_diagram_info(g, u).wire_symbols)
    /\ [][last'.op = "with_exponent" =>
            gates'[last'.src] = gates[last'.src]]_vars

C6_Witness ==
    /\ last.op = "with_exponent"
    /\ last.arg = PyInt(3)
    /\ gates[last.src].exponent = PyFloat(5, 2)
    /\ gates[last.res].exponent = PyInt(3)

\* C7: repr is the bare name 'DoubleExcitation' exactly when the stored
\* exponent equals 1, and 'DoubleExcitation**' followed by the repr of the
\* exponent otherwise (also for 3, which differs from 1 by the period).
C7_Repr ==
    last.op = "repr" =>
        LET e == half_turns(gates[last.src])
        IN  /\ (last.res = "DoubleExcitation") <=> NumEq(e, PyInt(1))
            /\ ~NumEq(e, PyInt(1)) =>
                  last.res = "DoubleExcitation**" \o ReprNum(e)
            /\ gates[last.src] = DoubleExcitation => last.res = "DoubleExcitation"
            /\ e = PyInt(2) => last.res = "DoubleExcitation**2"
            /\ e = PyInt(3) => last.res = "DoubleExcitation**3"
            /\ e = PyFloat(5, 2) => last.res = "DoubleExcitation**2.5"

C7_Witness ==
    /\ last.op = "repr"
    /\ last.res = "DoubleExcitation**3"
    /\ gates[last.src].exponent = PyInt(3)

-----------------------------------------------------------------------------
(* Querying a gate: eigen-components, canonical period, operator.          *)

InitQuery ==
    /\ \E theta \in Thetas :
          gates = [n \in Names |->
                      IF n = 1
                      THEN DoubleExcitationGate(theta, None, None, None).gate
                      ELSE NoGate]
    /\ last = [op |-> "import"]
    /\ InitDecompIdle
    /\ InitTrotterIdle

EigenComponentsCall(i) ==
    /\ gates[i] # NoGate
    /\ last' = [op |-> "_eigen_components", src |-> i,
                res |-> _eigen_components(gates[i])]
    /\ UNCHANGED <<gates, decompVars, trotterVars>>

CanonicalExponentPeriodCall(i) ==
    /\ gates[i] # NoGate
    /\ last' = [op |-> "_canonical_exponent_period", src |-> i,
                res |-> _canonical_exponent_period(gates[i])]
    /\ UNCHANGED <<gates, decompVars, trotterVars>>

\* the operator EigenGate builds from the eigen-components and the exponent
MatrixCall(i) ==
    /\ gates[i] # NoGate
    /\ last' = [op |-> "matrix", src |-> i, res |-> EigenOperator(gates[i])]
    /\ UNCHANGED <<gates, decompVars, trotterVars>>

NextQuery ==
    \/ \E i \in Names : EigenComponentsCall(i)
    \/ \E i \in Names : CanonicalExponentPeriodCall(i)
    \/ \E i \in Names : MatrixCall(i)

SpecQuery == InitQuery /\ [][NextQuery]_vars

\* integer matrices over Idx \X Idx
RECURSIVE DotFrom(_, _, _, _, _)
DotFrom(A, B, i, j, k) ==
    IF k = Dim THEN 0 ELSE A[<<i, k>>] * B[<<k, j>>] + DotFrom(A, B, i, j, k + 1)

MatMul(A, B) == [ij \in Idx \X Idx |-> DotFrom(A, B, ij[1], ij[2], 0)]
MatScale(A, n) == [ij \in Idx \X Idx |-> n * A[ij]]
MatAdd(A, B) == [ij \in Idx \X Idx |-> A[ij] + B[ij]]
MatZero == [ij \in Idx \X Idx |-> 0]
MatId == [ij \in Idx \X Idx |-> IF ij[1] = ij[2] THEN 1 ELSE 0]

RECURSIVE TraceFrom(_, _)
TraceFrom(A, k) == IF k = Dim THEN 0 ELSE A[<<k, k>>] + TraceFrom(A, k + 1)

Shifts == -3..3

\* C4: the canonical period is 2, and the operator
\* sum_i exp(i*pi*lambda_i*theta) P_i is exactly the same for theta and for
\* theta + 2k, for every integer k.
C4_PeriodTwo ==
    last.op = "matrix" =>
        LET g == gates[last.src]
            period == _canonical_exponent_period(g)
            shifted(k) ==
                [exponent |->
                    NumAdd(half_turns(g), NumMul(PyInt(period), PyInt(k)))]
        IN  /\ period = 2
            /\ \A k \in Shifts : EigenOperator(shifted(k)) = last.res

C4_Witness ==
    /\ last.op = "matrix"
    /\ half_turns(gates[last.src]) = PyFloat(3, 8)
    /\ last.res[<<3, 12>>] # RZero
    /\ EigenOperator([exponent |-> PyFloat(19, 8)]) = last.res
    /\ EigenOperator([exponent |-> PyFloat(11, 8)]) # last.res

\* C5: _eigen_components() is three pairs with eigenvalue-exponents 0, -1, 1
\* whose matrices are real-symmetric projectors, mutually orthogonal and
\* summing to the identity; the eigenvalue-0 projector has rank 14 and is the
\* diagonal indicator of all basis states but 3 and 12; the -1 and +1
\* projectors have rank 1, onto (|3> - |12>)/sqrt 2 and (|3> + |12>)/sqrt 2.
\* (Matrices are stored doubled: P*P = P reads A*A = 2A.)
C5_EigenComponents ==
    last.op = "_eigen_components" =>
        LET c == last.res
            v(sgn) == [i \in Idx |-> IF i = 3 THEN 1
                                     ELSE IF i = 12 THEN sgn ELSE 0]
        IN  /\ Len(c) = 3
            /\ <<c[1].lambda, c[2].lambda, c[3].lambda>> = <<0, -1, 1>>
            /\ \A n \in 1..3 :
                  /\ MatMul(c[n].proj, c[n].proj) = MatScale(c[n].proj, 2)
                  /\ \A ij \in Idx \X Idx :
                        c[n].proj[ij] = c[n].proj[<<ij[2], ij[1]>>]
            /\ \A n \in 1..3, m \in 1..3 :
                  n # m => MatMul(c[n].proj, c[m].proj) = MatZero
            /\ MatAdd(c[1].proj, MatAdd(c[2].proj, c[3].proj)) = MatScale(MatId, 2)
            /\ TraceFrom(c[1].proj, 0) = 2 * 14
            /\ TraceFrom(c[2].proj, 0) = 2 * 1
            /\ TraceFrom(c[3].proj, 0) = 2 * 1
            /\ c[1].proj = [ij \in Idx \X Idx |->
                              IF ij[1] = ij[2] /\ ij[1] \notin {3, 12}
                              THEN 2 ELSE 0]
            /\ c[2].proj = [ij \in Idx \X Idx |-> v(-1)[ij[1]] * v(-1)[ij[2]]]
            /\ c[3].proj = [ij \in Idx \X Idx |-> v(1)[ij[1]] * v(1)[ij[2]]]

C5_Witness ==
    /\ last.op = "_eigen_components"
    /\ Len(last.res) = 3
    /\ last.res[2].proj[<<3, 12>>] = -1
    /\ half_turns(gates[last.src]) = PyFloat(-7, 8)

-----------------------------------------------------------------------------
(* class TrotterStepAlgorithm and a driver that follows its protocol.      *)

NoQubit == "None"

\* the class attribute controlled
controlled == FALSE

\* default prepare: do nothing
prepare(self, qs, hamiltonian, control_qubit) == <<>>

\* step_qubit_permutation with the default taken for a reversal
step_qubit_permutation_reversed(self, qs, control_qubit) ==
    <<Reverse(qs), control_qubit>>

\* default step_qubit_permutation: identity permutation
step_qubit_permutation(self, qs, control_qubit) == <<qs, control_qubit>>

\* default finish: do nothing
finish(self, qs, hamiltonian, n_steps, control_qubit, omit_final_swaps) == <<>>

\* concrete algorithms: "default" overrides only the abstract trotter_step;
\* "reversing" and "rotating" also override step_qubit_permutation, with the
\* permutation their step induces
Algorithms == {"default", "reversing", "rotating"}

\* trotter_step of a concrete algorithm: one opaque operation per step
trotter_step(self, qs, hamiltonian, time, control_qubit) ==
    << [algorithm |-> self, on |-> qs, control |-> control_qubit,
        time |-> time] >>

\* method dispatch on the algorithm
StepQubitPermutation(self, qs, control_qubit) ==
    CASE self = "default" -> step_qubit_permutation(self, qs, control_qubit)
      [] self = "reversing" -> <<Reverse(qs), control_qubit>>
      [] self = "rotating" -> <<Tail(qs) \o <<Head(qs)>>, control_qubit>>

SystemQubits == {"a", "b", "c"}

Registers ==
    {qs \in [1..Cardinality(SystemQubits) -> SystemQubits] :
        \A m, n \in 1..Cardinality(SystemQubits) : m # n => qs[m] # qs[n]}

Hamiltonian == "H"

InitTrotter ==
    /\ InitGateIdle
    /\ InitDecompIdle
    /\ alg \in Algorithms
    /\ tqubits \in Registers
    /\ tcontrol \in {NoQubit, "ctl"}
    /\ phase = "idle"
    /\ nsteps = 0
    /\ emitted = <<>>
    /\ labels = <<>>

\* the driver calls prepare once, before any step
Prepare ==
    /\ phase = "idle"
    /\ emitted' = emitted \o prepare(alg, tqubits, Hamiltonian, tcontrol)
    /\ labels' = << <<tqubits, tcontrol>> >>
    /\ phase' = "stepping"
    /\ UNCHANGED <<alg, tqubits, tcontrol, nsteps, gateVars, decompVars>>

\* one Trotter step, then the driver replaces its bookkeeping by the result
\* of step_qubit_permutation
Step ==
    /\ phase = "stepping"
    /\ nsteps < MaxSteps
    /\ emitted' = emitted \o trotter_step(alg, tqubits, Hamiltonian, 1, tcontrol)
    /\ LET after == StepQubitPermutation(alg, tqubits, tcontrol)
       IN  /\ tqubits' = after[1]
           /\ tcontrol' = after[2]
           /\ labels' = Append(labels, after)
    /\ nsteps' = nsteps + 1
    /\ UNCHANGED <<alg, phase, gateVars, decompVars>>

\* the driver calls finish once, as the last phase
Finish(omit_final_swaps) ==
    /\ phase = "stepping"
    /\ emitted' = emitted
          \o finish(alg, tqubits, Hamiltonian, nsteps, tcontrol, omit_final_swaps)
    /\ phase' = IF omit_final_swaps THEN "finished_omit" ELSE "finished"
    /\ UNCHANGED <<alg, tqubits, tcontrol, nsteps, labels, gateVars, decompVars>>

NextTrotter ==
    \/ Prepare
    \/ Step
    \/ \E omit \in BOOLEAN : Finish(omit)

SpecTrotter == InitTrotter /\ [][NextTrotter]_vars

\* step_qubit_permutation applied k times to a labeling
RECURSIVE Permuted(_, _, _)
Permuted(self, k, labeling) ==
    IF k = 0 THEN labeling
    ELSE LET before == Permuted(self, k - 1, labeling)
         IN  StepQubitPermutation(self, before[1], before[2])

\* C8: under the driver prepare, n steps each followed by
\* step_qubit_permutation, finish: the labeling after k steps is the k-fold
\* step_qubit_permutation of the initial one; an algorithm that does not
\* override step_qubit_permutation keeps the qubit sequence and the control
\* qubit after every step and at finish; the default prepare and finish emit
\* nothing (only the steps emit) and change nothing.
C8_TrotterProtocol ==
    phase # "idle" =>
        /\ Len(labels) = nsteps + 1
        /\ \A k \in 0..nsteps : labels[k + 1] = Permuted(alg, k, labels[1])
        /\ <<tqubits, tcontrol>> = labels[nsteps + 1]
        /\ alg = "default" =>
              \A k \in 0..nsteps : labels[k + 1] = labels[1]
        /\ Len(emitted) = nsteps
        /\ \A k \in 1..nsteps :
              /\ emitted[k].on = labels[k][1]
              /\ emitted[k].control = labels[k][2]

C8_Witness ==
    /\ phase = "finished"
    /\ alg = "default"
    /\ nsteps = 3
    /\ tqubits = <<"b", "a", "c">>
    /\ tcontrol = "ctl"
    /\ labels[1] = <<tqubits, tcontrol>>

====
